---------------------------- MODULE Spec2Model ----------------------------
(***************************************************************************)
(* Model of the ChatTube popup: the orchestration between the popup's UI   *)
(* and the remote Gradio backend.  The repository holds two variants of    *)
(* the popup script:                                                       *)
(*   "popup"  : src/popup.js           (handleAsk, handleSummarize,        *)
(*                                      streamText, outputViewer)          *)
(*   "legacy" : src/unnamed/part_000   (handleAskQuestion, answerDiv,      *)
(*                                      askBtn busy flag)                  *)
(* Both share formatResponse, connectToGradio, handleProcessVideo and      *)
(* loadInitialURL.  The variable `variant` says which script the popup     *)
(* runs; it never changes.                                                 *)
(*                                                                         *)
(* Text is a sequence of one-character strings; markup is a sequence in    *)
(* which a tag ("<strong>", "<li>", ...) or a fixed message is one token.  *)
(* One action is one event-loop turn: a user event, a network completion,  *)
(* a timer, together with the microtask continuations it triggers.         *)
(***************************************************************************)
EXTENDS Integers, Sequences, FiniteSets, Bags, TLC

\* ------------------------------------------------------------- bounds
\* handshakes in flight; submit-video calls in flight or waiting for their
\* handshake; asks in flight or being revealed
MaxConnects == 2
MaxProcess == 2
MaxAsks == 2

\* ------------------------------------------------ text helper functions
Stars == <<"*", "*">>
BulletMark == <<"*", " ">>

IsWs(c) == c \in {" ", "\n"}

RECURSIVE TrimLeft(_)
TrimLeft(s) ==
    IF s = <<>> THEN s
    ELSE IF IsWs(Head(s)) THEN TrimLeft(Tail(s)) ELSE s

RECURSIVE TrimRight(_)
TrimRight(s) ==
    IF s = <<>> THEN s
    ELSE IF IsWs(s[Len(s)]) THEN TrimRight(SubSeq(s, 1, Len(s) - 1)) ELSE s

\* String.prototype.trim
Trim(s) == TrimRight(TrimLeft(s))

\* s.startsWith(p, i - 1)
StartsWithAt(s, i, p) ==
    /\ i >= 1
    /\ i + Len(p) - 1 <= Len(s)
    /\ SubSeq(s, i, i + Len(p) - 1) = p

\* String.prototype.includes
Includes(s, p) == \E i \in 1..Len(s) : StartsWithAt(s, i, p)

\* String.prototype.split on a one-character separator
RECURSIVE SplitFrom(_, _, _)
SplitFrom(s, sep, cur) ==
    IF s = <<>> THEN <<cur>>
    ELSE IF Head(s) = sep THEN <<cur>> \o SplitFrom(Tail(s), sep, <<>>)
    ELSE SplitFrom(Tail(s), sep, Append(cur, Head(s)))

Split(s, sep) == SplitFrom(s, sep, <<>>)

\* Array.prototype.join
RECURSIVE Join(_, _)
Join(parts, sep) ==
    IF parts = <<>> THEN <<>>
    ELSE IF Len(parts) = 1 THEN parts[1]
    ELSE parts[1] \o sep \o Join(Tail(parts), sep)

\* The end of the lazy match of /\*\*(.*?)\*\*/ that starts at i: the first
\* j >= i + 2 at which "**" stands, with no line break in between ("." does
\* not match a line break); 0 when the pattern does not match at i.
BoldClose(s, i) ==
    LET ends == {j \in (i + 2)..Len(s) :
                    /\ StartsWithAt(s, j, Stars)
                    /\ \A k \in (i + 2)..(j - 1) : s[k] # "\n"}
    IN IF StartsWithAt(s, i, Stars) /\ ends # {}
       THEN CHOOSE j \in ends : \A k \in ends : j <= k
       ELSE 0

\* text.replace(/\*\*(.*?)\*\*/g, '<strong>$1</strong>'), scanning from i
RECURSIVE ReplaceBold(_, _)
ReplaceBold(s, i) ==
    IF i > Len(s) THEN <<>>
    ELSE IF BoldClose(s, i) # 0
         THEN <<"<strong>">> \o SubSeq(s, i + 2, BoldClose(s, i) - 1)
                \o <<"</strong>">> \o ReplaceBold(s, BoldClose(s, i) + 2)
         ELSE <<s[i]>> \o ReplaceBold(s, i + 1)

IsBulletLine(line) == StartsWithAt(Trim(line), 1, BulletMark)

IsOtherLine(line) == ~IsBulletLine(line)

\* `<li>${line.trim().substring(2).trim()}</li>`
ListItem(line) ==
    <<"<li>">> \o Trim(SubSeq(Trim(line), 3, Len(Trim(line)))) \o <<"</li>">>

RECURSIVE ListItems(_)
ListItems(lines) ==
    IF lines = <<>> THEN <<>>
    ELSE ListItem(Head(lines)) \o ListItems(Tail(lines))

\* the bullet step of formatResponse alone, on a text f: lines 136-149
BulletStep(f) ==
    LET lines == Split(f, "\n")
        listItems == ListItems(SelectSeq(lines, IsBulletLine))
        otherContent == Join(SelectSeq(lines, IsOtherLine), <<"<br>">>)
    IN IF Includes(f, BulletMark)
       THEN otherContent \o <<"<ul>">> \o listItems \o <<"</ul>">>
       ELSE f

\* variation: the bullet step first, the bold step second
formatResponse_BulletsFirst(text) == Trim(ReplaceBold(BulletStep(text), 1))

formatResponse(text) ==
    LET formattedText == ReplaceBold(text, 1)
        lines == Split(formattedText, "\n")
        listItems == ListItems(SelectSeq(lines, IsBulletLine))
        otherContent == Join(SelectSeq(lines, IsOtherLine), <<"<br>">>)
    IN Trim(IF Includes(formattedText, BulletMark)
            THEN otherContent \o <<"<ul>">> \o listItems \o <<"</ul>">>
            ELSE formattedText)

Tags == {"<strong>", "</strong>", "<ul>", "</ul>", "<li>", "</li>", "<br>"}

IsTextToken(t) == t \notin Tags

\* tempDiv.innerHTML = formattedText; tempDiv.textContent
PlainText(markup) == SelectSeq(markup, IsTextToken)


\* ------------------------------------------------------ input domains
Null == 0

Variants == {"popup", "legacy"}

\* addresses, as sequences of fragments so that includes() is computed
WatchUrl == <<"https://www.", "youtube.com/watch", "?v=abc">>
OtherUrl == <<"https://example.com/">>

\* what chrome.tabs.query hands to the callback
TabResults == {<<>>, <<[url |-> WatchUrl]>>, <<[url |-> OtherUrl]>>}

\* what the user can put in the question field
Questions == {<<>>, <<" ", "q">>}

\* backend-supplied error texts (non-empty) and answer texts
ErrorTexts == {"E1", "E2"}
AnswerTexts == {<<"a">>, <<"*", "*", "b", "*", "*", "c">>}

\* result.data[0] of /answer_question: a plain string, an object with an
\* error field, or an object with an answer field
TextPayload(t) == [kind |-> "text", text |-> t, error |-> ""]
ErrorPayload(m) == [kind |-> "errorObject", text |-> <<>>, error |-> m]
AnswerPayload(t) == [kind |-> "answerObject", text |-> t, error |-> ""]
NoPayload == [kind |-> "none", text |-> <<>>, error |-> ""]

Resolved(p) == [settled |-> "resolve", payload |-> p, message |-> ""]
Rejected(m) == [settled |-> "reject", payload |-> NoPayload, message |-> m]

AskResults ==
    {Resolved(TextPayload(t)) : t \in AnswerTexts}
        \cup {Resolved(ErrorPayload(m)) : m \in ErrorTexts}
        \cup {Resolved(AnswerPayload(t)) : t \in AnswerTexts}
        \cup {Rejected(m) : m \in ErrorTexts}

\* result.data[0] of /process_video_url: nothing or a message object, or an
\* object with an error field
ProcessResults ==
    {Resolved(NoPayload), Resolved(TextPayload(<<"done">>))}
        \cup {Resolved(ErrorPayload(m)) : m \in ErrorTexts}
        \cup {Rejected(m) : m \in ErrorTexts}

\* ------------------------------------------------------------- state
\* A handshake or call in flight is modelled by what its continuation closes
\* over: handleProcessVideo awaiting connectToGradio keeps the url, the
\* continuations after predict keep nothing.
VARIABLES
    variant,                    \* which popup script runs
    gradioClient,               \* Null, or the n-th handle obtained
    videoProcessed,
    processBtn_disabled,
    askBtn_disabled,
    videoUrlInput,              \* [value, disabled, placeholder]
    questionInput_value,
    processArea_display,
    statusContainer_display,
    interact_display,           \* videoInteractSection / chatArea
    status,                     \* [text, type]: statusText and statusDiv class
    viewer,                     \* outputViewer / answerDiv: [html, display, visible]
    connects,                   \* bag of Client.connect handshakes in flight: [caller, url]
    processes,                  \* number of /process_video_url calls in flight
    asks,                       \* /answer_question calls in flight: [latest, earlier]
    streams,                    \* bag of streamText runs waiting for their timer:
                                \* [plainText, formattedText, i, superseded]
    tabQueryPending,            \* chrome.tabs.query callback not yet run
    handled,                    \* history: the result the last turn handled
    failedSince,                \* history: callers whose connect failed since the last success
    latestAnswer,               \* history: markup of the answer to the latest ask
    overlapLast                 \* history: the latest ask was issued during another one

dom == <<processBtn_disabled, askBtn_disabled, videoUrlInput, questionInput_value,
         processArea_display, statusContainer_display, interact_display, status,
         viewer>>

tasks == <<connects, processes, asks, streams, tabQueryPending>>

history == <<failedSince, latestAnswer, overlapLast>>

vars == <<variant, gradioClient, videoProcessed, dom, tasks, handled, history>>

\* the result a turn handled: of which call or query, and what came back
Handled(call, result) == [call |-> call, result |-> result]
NoResult == Handled("none", Resolved(NoPayload))

\* history: the turn was a handler that found its input field empty
EmptyInput == Handled("empty_input", Resolved(NoPayload))

One(x) == SetToBag({x})

updateStatus(message, type) == [text |-> message, type |-> type]

NoAnswer == <<"-">>

\* The popup page as it is loaded, before any script runs: the submission
\* form shown and enabled, the question section hidden; outputViewer is
\* hidden until a video is processed, answerDiv is shown in its section.
PopupHtml ==
    [processBtn_disabled |-> FALSE,
     askBtn_disabled |-> FALSE,
     videoUrlInput |-> [value |-> <<>>, disabled |-> FALSE, placeholder |-> <<>>],
     questionInput_value |-> <<>>,
     processArea_display |-> "block",
     statusContainer_display |-> "block",
     interact_display |-> "none",
     outputViewer |-> [html |-> <<>>, display |-> "none", visible |-> FALSE],
     answerDiv |-> [html |-> <<>>, display |-> "block", visible |-> TRUE]]

\* variation: the DOMContentLoaded handler does not call connectToGradio
Init_ConnectsLazily ==
    /\ variant \in Variants
    /\ gradioClient = Null
    /\ videoProcessed = FALSE
    /\ processBtn_disabled = PopupHtml.processBtn_disabled
    /\ askBtn_disabled = PopupHtml.askBtn_disabled
    /\ videoUrlInput = PopupHtml.videoUrlInput
    /\ questionInput_value = PopupHtml.questionInput_value
    /\ processArea_display = PopupHtml.processArea_display
    /\ statusContainer_display = PopupHtml.statusContainer_display
    /\ interact_display = PopupHtml.interact_display
    /\ viewer = IF variant = "popup" THEN PopupHtml.outputViewer ELSE PopupHtml.answerDiv
    /\ status = updateStatus(<<>>, "default")
    /\ connects = EmptyBag
    /\ processes = 0
    /\ asks = [latest |-> FALSE, earlier |-> 0]
    /\ streams = EmptyBag
    /\ tabQueryPending = TRUE
    /\ handled = NoResult
    /\ failedSince = {}
    /\ latestAnswer = NoAnswer
    /\ overlapLast = FALSE

\* The state when the DOMContentLoaded handler has returned: connectToGradio
\* has run up to its await, loadInitialURL has queried the tabs.
Init ==
    /\ variant \in Variants
    /\ gradioClient = Null
    /\ videoProcessed = FALSE
    /\ processBtn_disabled = PopupHtml.processBtn_disabled
    /\ askBtn_disabled = PopupHtml.askBtn_disabled
    /\ videoUrlInput = PopupHtml.videoUrlInput
    /\ questionInput_value = PopupHtml.questionInput_value
    /\ processArea_display = PopupHtml.processArea_display
    /\ statusContainer_display = PopupHtml.statusContainer_display
    /\ interact_display = PopupHtml.interact_display
    /\ viewer = IF variant = "popup" THEN PopupHtml.outputViewer ELSE PopupHtml.answerDiv
    /\ status = updateStatus(<<"Connecting to AI backend...">>, "loading")
    /\ connects = One([caller |-> "init", url |-> <<>>])
    /\ processes = 0
    /\ asks = [latest |-> FALSE, earlier |-> 0]
    /\ streams = EmptyBag
    /\ tabQueryPending = TRUE
    /\ handled = NoResult
    /\ failedSince = {}
    /\ latestAnswer = NoAnswer
    /\ overlapLast = FALSE

\* ------------------------------------------- connect and submit-video
\* What the user can act on: a control inside a hidden container, or a
\* disabled button, receives no event.
ProcessAreaShown == processArea_display # "none"
InteractShown == interact_display # "none"

\* handleProcessVideo from "UI updates for processing" to the await of
\* gradioClient.predict('/process_video_url', [url])
BeginProcessing(url) ==
    /\ processArea_display' = "none"
    /\ statusContainer_display' = "block"
    /\ status' = updateStatus(<<"Processing video... This may take a moment.">>, "loading")
    /\ viewer' = IF variant = "popup"
                 THEN [html |-> <<>>, display |-> "none", visible |-> FALSE]
                 ELSE viewer
    /\ processes' = processes + 1

\* connectToGradio up to its await: nothing when a handle exists, else the
\* status line and a handshake in flight
connectToGradio(caller, url) ==
    IF gradioClient # Null
    THEN UNCHANGED <<status, connects>>
    ELSE /\ status' = updateStatus(<<"Connecting to AI backend...">>, "loading")
         /\ connects' = connects (+) One([caller |-> caller, url |-> url])

\* calls of handleProcessVideo that have not yet reached predict
ProcessesAwaitingConnect ==
    BagCardinality(connects) - CopiesIn([caller |-> "init", url |-> <<>>], connects)

\* variation: every submission starts a handshake, whether or not a handle
\* exists
ClickProcess_AlwaysConnects ==
    /\ ProcessAreaShown
    /\ ~processBtn_disabled
    /\ LET url == videoUrlInput.value IN
        IF url = <<>>
        THEN /\ handled' = EmptyInput
             /\ UNCHANGED <<variant, gradioClient, videoProcessed, dom, tasks, history>>
        ELSE /\ processes + ProcessesAwaitingConnect < MaxProcess
             /\ BagCardinality(connects) < MaxConnects
             /\ status' = updateStatus(<<"Connecting to AI backend...">>, "loading")
             /\ connects' = connects (+) One([caller |-> "process", url |-> url])
             /\ handled' = NoResult
             /\ UNCHANGED <<variant, gradioClient, videoProcessed, processBtn_disabled,
                            askBtn_disabled, videoUrlInput, questionInput_value,
                            processArea_display, statusContainer_display,
                            interact_display, viewer, processes, asks, streams,
                            tabQueryPending, history>>

\* click on the process button: handleProcessVideo up to its first await
ClickProcess ==
    /\ ProcessAreaShown
    /\ ~processBtn_disabled
    /\ LET url == videoUrlInput.value IN
        IF url = <<>>
        THEN \* alert(...) and return
             /\ handled' = EmptyInput
             /\ UNCHANGED <<variant, gradioClient, videoProcessed, dom, tasks, history>>
        ELSE /\ processes + ProcessesAwaitingConnect < MaxProcess
             /\ IF gradioClient = Null
                THEN /\ BagCardinality(connects) < MaxConnects
                     /\ connectToGradio("process", url)
                     /\ UNCHANGED <<processArea_display, statusContainer_display,
                                    viewer, processes>>
                ELSE /\ BeginProcessing(url)
                     /\ UNCHANGED connects
             /\ handled' = NoResult
             /\ UNCHANGED <<variant, gradioClient, videoProcessed, processBtn_disabled,
                            askBtn_disabled, videoUrlInput, questionInput_value,
                            interact_display, asks, streams, tabQueryPending,
                            history>>

\* variation: a failed handshake assigns its (absent) result to the handle
ConnectSettles_FailureClearsHandle(c, ok, error) ==
    LET client == IF ok THEN gradioClient + 1 ELSE Null
        goesOn == c.caller = "process" /\ client # Null
    IN /\ gradioClient' = client
       /\ processBtn_disabled' = IF ok THEN processBtn_disabled ELSE TRUE
       /\ connects' = connects (-) One(c)
       /\ failedSince' = IF ok THEN {} ELSE failedSince \cup {c.caller}
       /\ handled' = Handled("connect", IF ok THEN Resolved(NoPayload) ELSE Rejected(error))
       /\ IF goesOn
          THEN BeginProcessing(c.url)
          ELSE /\ status' = IF ok
                            THEN updateStatus(<<"Connected! Ready to process video.">>, "success")
                            ELSE updateStatus(<<"Failed to connect to backend.">>, "error")
               /\ UNCHANGED <<processArea_display, statusContainer_display, viewer,
                              processes>>
       /\ UNCHANGED <<variant, videoProcessed, askBtn_disabled, videoUrlInput,
                      questionInput_value, interact_display, asks, streams,
                      tabQueryPending, latestAnswer, overlapLast>>

\* The handshake of connect c settles, with a handle (ok) or with an error
\* that the catch block only logs.  connectToGradio finishes, and when
\* handleProcessVideo was awaiting it, handleProcessVideo goes on in the
\* same turn.
ConnectSettles(c, ok, error) ==
    LET client == IF ok THEN gradioClient + 1 ELSE gradioClient
        goesOn == c.caller = "process" /\ client # Null
    IN /\ gradioClient' = client
       /\ processBtn_disabled' = IF ok THEN processBtn_disabled ELSE TRUE
       /\ connects' = connects (-) One(c)
       /\ failedSince' = IF ok THEN {} ELSE failedSince \cup {c.caller}
       /\ handled' = Handled("connect", IF ok THEN Resolved(NoPayload) ELSE Rejected(error))
       /\ IF goesOn
          THEN BeginProcessing(c.url)
          ELSE /\ status' = IF ok
                            THEN updateStatus(<<"Connected! Ready to process video.">>, "success")
                            ELSE updateStatus(<<"Failed to connect to backend.">>, "error")
               /\ UNCHANGED <<processArea_display, statusContainer_display, viewer,
                              processes>>
       /\ UNCHANGED <<variant, videoProcessed, askBtn_disabled, videoUrlInput,
                      questionInput_value, interact_display, asks, streams,
                      tabQueryPending, latestAnswer, overlapLast>>

ConnectSucceeds == \E c \in BagToSet(connects) : ConnectSettles(c, TRUE, "")

ConnectFails ==
    \E c \in BagToSet(connects) : \E m \in ErrorTexts : ConnectSettles(c, FALSE, m)

\* variation: the error field of the response is not looked at
ProcessOutcome_IgnoresErrorField(res) ==
    IF res.settled = "reject" THEN [threw |-> TRUE, message |-> res.message]
    ELSE [threw |-> FALSE, message |-> ""]

\* the try block of handleProcessVideo after the await: throws on a
\* rejected call and on an error field
ProcessOutcome(res) ==
    IF res.settled = "reject" THEN [threw |-> TRUE, message |-> res.message]
    ELSE IF res.payload.kind = "errorObject"
         THEN [threw |-> TRUE, message |-> res.payload.error]
         ELSE [threw |-> FALSE, message |-> ""]

\* handleProcessVideo, "UI updates for success"
ProcessSucceeded ==
    /\ statusContainer_display' = "none"
    /\ interact_display' = IF variant = "popup" THEN "flex" ELSE "block"
    /\ videoProcessed' = TRUE
    /\ viewer' = IF variant = "popup"
                 THEN [viewer EXCEPT !.display = "block"]
                 ELSE [viewer EXCEPT !.html = <<"You can now ask questions about the video.">>]
    /\ questionInput_value' = IF variant = "popup" THEN <<>> ELSE questionInput_value
    /\ UNCHANGED <<status, processArea_display, processBtn_disabled, videoUrlInput>>

\* variation: the catch block leaves the question section as it is
ProcessFailed_KeepsQuestionSection(message) ==
    /\ statusContainer_display' = "block"
    /\ status' = updateStatus(<<"Error: ", message>>, "error")
    /\ processArea_display' = "block"
    /\ processBtn_disabled' = FALSE
    /\ videoUrlInput' = [videoUrlInput EXCEPT !.disabled = FALSE]
    /\ videoProcessed' = FALSE
    /\ UNCHANGED <<viewer, questionInput_value, interact_display>>

\* variation: the catch block does not show the submission form again
ProcessFailed_KeepsFormHidden(message) ==
    /\ statusContainer_display' = "block"
    /\ interact_display' = "none"
    /\ status' = updateStatus(<<"Error: ", message>>, "error")
    /\ processBtn_disabled' = FALSE
    /\ videoUrlInput' = [videoUrlInput EXCEPT !.disabled = FALSE]
    /\ videoProcessed' = FALSE
    /\ UNCHANGED <<viewer, questionInput_value, processArea_display>>

\* handleProcessVideo, the catch block
ProcessFailed(message) ==
    /\ statusContainer_display' = "block"
    /\ interact_display' = "none"
    /\ status' = updateStatus(<<"Error: ", message>>, "error")
    /\ processArea_display' = "block"
    /\ processBtn_disabled' = FALSE
    /\ videoUrlInput' = [videoUrlInput EXCEPT !.disabled = FALSE]
    /\ videoProcessed' = FALSE
    /\ UNCHANGED <<viewer, questionInput_value>>

\* a /process_video_url call settles with res: the rest of
\* handleProcessVideo
ProcessSettles(res) ==
    /\ processes > 0
    /\ processes' = processes - 1
    /\ IF ProcessOutcome(res).threw
       THEN ProcessFailed(ProcessOutcome(res).message)
       ELSE ProcessSucceeded
    /\ handled' = Handled("process_video", res)
    /\ UNCHANGED <<variant, gradioClient, askBtn_disabled, connects, asks, streams,
                   tabQueryPending, history>>

ProcessResponse == \E res \in ProcessResults : ProcessSettles(res)

\* variation: any tab with an address counts as a video page
IsVideoPage_AnyAddress(tabs) ==
    /\ tabs # <<>>
    /\ tabs[1].url # <<>>

\* currentTab.url.includes("youtube.com/watch")
IsVideoPage(tabs) ==
    /\ tabs # <<>>
    /\ tabs[1].url # <<>>
    /\ Includes(tabs[1].url, <<"youtube.com/watch">>)

\* the callback of chrome.tabs.query in loadInitialURL
loadInitialURL(tabs) ==
    /\ tabQueryPending
    /\ tabQueryPending' = FALSE
    /\ IF IsVideoPage(tabs)
       THEN /\ videoUrlInput' = [videoUrlInput EXCEPT !.value = tabs[1].url]
            /\ processBtn_disabled' = FALSE
       ELSE /\ videoUrlInput' = [videoUrlInput EXCEPT
                                    !.placeholder = <<"Not on a YouTube video page.">>,
                                    !.disabled = TRUE]
            /\ processBtn_disabled' = TRUE
    /\ handled' = Handled("tabs_query",
                          Resolved(IF tabs = <<>> THEN NoPayload
                                   ELSE TextPayload(tabs[1].url)))
    /\ UNCHANGED <<variant, gradioClient, videoProcessed, askBtn_disabled,
                   questionInput_value, processArea_display, statusContainer_display,
                   interact_display, status, viewer, connects, processes, asks,
                   streams, history>>

TabQueryCallback == \E tabs \in TabResults : loadInitialURL(tabs)

\* ------------------------------------------------------- ask-question
TypeErrorNotFunction == "text.replace is not a function"
TypeErrorNull == "Cannot read properties of null (reading 'predict')"

SpanOpen == "<span class=\"empty\">"
SpanClose == "</span>"

PleaseEnter == <<"Please enter a question.">>
MustProcess == <<"You must process a video before asking questions.">>

\* `An error occurred: ${error.message}` in answerDiv
LegacyError(message) == <<"An error occurred: ", message>>

\* `<span class="empty">An error occurred: ${error.message}</span>` in outputViewer
PopupError(message) == <<SpanOpen, "An error occurred: ", message, SpanClose>>

\* The question section of the page holds the question field, the ask
\* button and the summarize button.
AskControlsShown == InteractShown

\* the user edits the question field
TypeQuestion ==
    /\ AskControlsShown
    /\ \E q \in Questions :
        /\ q # questionInput_value
        /\ questionInput_value' = q
    /\ handled' = NoResult
    /\ UNCHANGED <<variant, gradioClient, videoProcessed, processBtn_disabled,
                   askBtn_disabled, videoUrlInput, processArea_display,
                   statusContainer_display, interact_display, status, viewer, tasks,
                   history>>

\* asks whose call is in flight, and those whose answer is being revealed
AsksInFlight == asks.earlier + (IF asks.latest THEN 1 ELSE 0)
AsksActive == AsksInFlight + BagCardinality(streams)

\* gradioClient.predict('/answer_question', [question]) up to its await
IssueAsk(question) ==
    /\ AsksActive < MaxAsks
    /\ asks' = [latest |-> TRUE, earlier |-> AsksInFlight]
    /\ latestAnswer' = NoAnswer
    /\ overlapLast' = (AsksActive > 0)

\* the call that settles is the latest one (TRUE) or an earlier one
AskSettled(isLatest) ==
    /\ IF isLatest THEN asks.latest ELSE asks.earlier > 0
    /\ asks' = IF isLatest THEN [asks EXCEPT !.latest = FALSE]
               ELSE [asks EXCEPT !.earlier = asks.earlier - 1]

\* variation: an object payload is rendered through its text field
AnswerOutcome_RendersObjects(res) ==
    IF res.settled = "reject"
    THEN [threw |-> TRUE, message |-> res.message, formatted |-> <<>>]
    ELSE [threw |-> FALSE, message |-> "", formatted |-> formatResponse(res.payload.text)]

\* the try block of the ask handlers after the await: the payload is
\* formatted when it is a string; formatResponse throws a TypeError on
\* anything else, and a rejected call throws its error
AnswerOutcome(res) ==
    IF res.settled = "reject"
    THEN [threw |-> TRUE, message |-> res.message, formatted |-> <<>>]
    ELSE IF res.payload.kind = "text"
         THEN [threw |-> FALSE, message |-> "", formatted |-> formatResponse(res.payload.text)]
         ELSE [threw |-> TRUE, message |-> TypeErrorNotFunction, formatted |-> <<>>]

\* src/unnamed/part_000: handleAskQuestion up to its await
handleAskQuestion ==
    LET question == questionInput_value IN
    /\ IF question = <<>>
       THEN /\ viewer' = [viewer EXCEPT !.html = PleaseEnter]
            /\ UNCHANGED <<askBtn_disabled, asks, latestAnswer, overlapLast>>
       ELSE IF ~videoProcessed
       THEN /\ viewer' = [viewer EXCEPT !.html = MustProcess]
            /\ UNCHANGED <<askBtn_disabled, asks, latestAnswer, overlapLast>>
       ELSE IF gradioClient = Null
       THEN \* predict on null throws inside the try: catch, then finally
            /\ viewer' = [viewer EXCEPT !.html = LegacyError(TypeErrorNull)]
            /\ askBtn_disabled' = FALSE
            /\ UNCHANGED <<asks, latestAnswer, overlapLast>>
       ELSE /\ askBtn_disabled' = TRUE
            /\ viewer' = [viewer EXCEPT !.html = <<"Thinking...">>]
            /\ IssueAsk(question)
    /\ handled' = IF question = <<>> THEN EmptyInput ELSE NoResult
    /\ UNCHANGED <<variant, gradioClient, videoProcessed, processBtn_disabled,
                   videoUrlInput, questionInput_value, processArea_display,
                   statusContainer_display, interact_display, status, connects,
                   processes, streams, tabQueryPending, failedSince>>

LegacyAskClick ==
    /\ variant = "legacy"
    /\ AskControlsShown
    /\ ~askBtn_disabled
    /\ handleAskQuestion

\* keyup with event.key === 'Enter' in the question field
LegacyAskEnter ==
    /\ variant = "legacy"
    /\ AskControlsShown
    /\ handleAskQuestion

\* variation: the catch block clears videoProcessed, as the one of
\* handleProcessVideo does
LegacyAskSettles_ClearsProcessed(isLatest, res) ==
    LET out == AnswerOutcome(res) IN
    /\ AskSettled(isLatest)
    /\ handled' = Handled("answer_question", res)
    /\ IF ~out.threw
       THEN /\ viewer' = [viewer EXCEPT !.html = out.formatted]
            /\ latestAnswer' = IF isLatest THEN out.formatted ELSE latestAnswer
            /\ UNCHANGED videoProcessed
       ELSE /\ viewer' = [viewer EXCEPT !.html = LegacyError(out.message)]
            /\ videoProcessed' = FALSE
            /\ UNCHANGED latestAnswer
    /\ askBtn_disabled' = FALSE
    /\ UNCHANGED <<variant, gradioClient, processBtn_disabled,
                   videoUrlInput, questionInput_value, processArea_display,
                   statusContainer_display, interact_display, status, connects,
                   processes, streams, tabQueryPending, failedSince, overlapLast>>

\* src/unnamed/part_000: handleAskQuestion after the await
LegacyAskSettles(isLatest, res) ==
    LET out == AnswerOutcome(res) IN
    /\ AskSettled(isLatest)
    /\ handled' = Handled("answer_question", res)
    /\ IF ~out.threw
       THEN /\ viewer' = [viewer EXCEPT !.html = out.formatted]
            /\ latestAnswer' = IF isLatest THEN out.formatted ELSE latestAnswer
       ELSE /\ viewer' = [viewer EXCEPT !.html = LegacyError(out.message)]
            /\ UNCHANGED latestAnswer
    /\ askBtn_disabled' = FALSE
    /\ UNCHANGED <<variant, gradioClient, videoProcessed, processBtn_disabled,
                   videoUrlInput, questionInput_value, processArea_display,
                   statusContainer_display, interact_display, status, connects,
                   processes, streams, tabQueryPending, failedSince, overlapLast>>

LegacyAnswer ==
    /\ variant = "legacy"
    /\ \E isLatest \in BOOLEAN : \E res \in AskResults : LegacyAskSettles(isLatest, res)

\* src/popup.js: handleAsk and handleSummarize from the loading text to the
\* await of predict
PopupAsk(question, loading) ==
    /\ IF gradioClient = Null
       THEN \* predict on null throws inside the try: catch
            /\ viewer' = [html |-> PopupError(TypeErrorNull), display |-> "block",
                          visible |-> TRUE]
            /\ UNCHANGED <<asks, latestAnswer, overlapLast>>
       ELSE /\ viewer' = [html |-> <<SpanOpen, loading, SpanClose>>, display |-> "block",
                          visible |-> TRUE]
            /\ IssueAsk(question)
    /\ handled' = NoResult
    /\ UNCHANGED <<variant, gradioClient, videoProcessed, processBtn_disabled,
                   askBtn_disabled, videoUrlInput, questionInput_value,
                   processArea_display, statusContainer_display, interact_display,
                   status, connects, processes, streams, tabQueryPending, failedSince>>

\* variation: an empty question is sent like any other
handleAsk_SendsEmptyQuestion ==
    PopupAsk(Trim(questionInput_value), "Loading answer...")

handleAsk ==
    LET question == Trim(questionInput_value) IN
    IF question = <<>>
    THEN /\ handled' = EmptyInput
         /\ UNCHANGED <<variant, gradioClient, videoProcessed, dom, tasks, history>>
    ELSE PopupAsk(question, "Loading answer...")

handleSummarize == PopupAsk(<<"Summarize the transcript">>, "Loading summary...")

PopupAskClick ==
    /\ variant = "popup"
    /\ AskControlsShown
    /\ handleAsk

\* keyup with event.key === 'Enter' in the question field
PopupAskEnter ==
    /\ variant = "popup"
    /\ AskControlsShown
    /\ handleAsk

PopupSummarize ==
    /\ variant = "popup"
    /\ AskControlsShown
    /\ handleSummarize

\* history: a reveal is superseded once a later reveal has started
Supersede(s) == [s EXCEPT !.superseded = TRUE]

\* streamText up to its first await: the first character is written at
\* once; a markup without text is written whole and the run is over
streamText(formattedText) ==
    LET plainText == PlainText(formattedText) IN
    IF Len(plainText) = 0
    THEN /\ viewer' = [viewer EXCEPT !.html = formattedText]
         /\ streams' = BagOfAll(Supersede, streams)
    ELSE /\ viewer' = [viewer EXCEPT !.html = SubSeq(plainText, 1, 1)]
         /\ streams' = BagOfAll(Supersede, streams)
                            (+) One([plainText |-> plainText,
                                     formattedText |-> formattedText, i |-> 1,
                                     superseded |-> FALSE])

\* src/popup.js: handleAsk and handleSummarize after the await of predict
PopupAskSettles(isLatest, res) ==
    LET out == AnswerOutcome(res) IN
    /\ AskSettled(isLatest)
    /\ handled' = Handled("answer_question", res)
    /\ IF ~out.threw
       THEN /\ streamText(out.formatted)
            /\ latestAnswer' = IF isLatest THEN out.formatted ELSE latestAnswer
       ELSE /\ viewer' = [viewer EXCEPT !.html = PopupError(out.message)]
            /\ UNCHANGED <<streams, latestAnswer>>
    /\ UNCHANGED <<variant, gradioClient, videoProcessed, processBtn_disabled,
                   askBtn_disabled, videoUrlInput, questionInput_value,
                   processArea_display, statusContainer_display, interact_display,
                   status, connects, processes, tabQueryPending, failedSince,
                   overlapLast>>

PopupAnswer ==
    /\ variant = "popup"
    /\ \E isLatest \in BOOLEAN : \E res \in AskResults : PopupAskSettles(isLatest, res)

\* variation: after the last character the plain text is left in place
StreamStep_KeepsPlainText(s) ==
    /\ IF s.i < Len(s.plainText)
       THEN /\ viewer' = [viewer EXCEPT !.html = SubSeq(s.plainText, 1, s.i + 1)]
            /\ streams' = (streams (-) One(s)) (+) One([s EXCEPT !.i = s.i + 1])
       ELSE /\ viewer' = viewer
            /\ streams' = streams (-) One(s)
    /\ handled' = NoResult
    /\ UNCHANGED <<variant, gradioClient, videoProcessed, processBtn_disabled,
                   askBtn_disabled, videoUrlInput, questionInput_value,
                   processArea_display, statusContainer_display, interact_display,
                   status, connects, processes, asks, tabQueryPending, history>>

\* the timer of a streamText run fires: the next prefix, or after the last
\* character the formatted markup
StreamStep(s) ==
    /\ IF s.i < Len(s.plainText)
       THEN /\ viewer' = [viewer EXCEPT !.html = SubSeq(s.plainText, 1, s.i + 1)]
            /\ streams' = (streams (-) One(s)) (+) One([s EXCEPT !.i = s.i + 1])
       ELSE /\ viewer' = [viewer EXCEPT !.html = s.formattedText]
            /\ streams' = streams (-) One(s)
    /\ handled' = NoResult
    /\ UNCHANGED <<variant, gradioClient, videoProcessed, processBtn_disabled,
                   askBtn_disabled, videoUrlInput, questionInput_value,
                   processArea_display, statusContainer_display, interact_display,
                   status, connects, processes, asks, tabQueryPending, history>>

StreamTick == \E s \in BagToSet(streams) : StreamStep(s)

\* ------------------------------------------------------ specification
Next ==
    \/ ClickProcess
    \/ ConnectSucceeds
    \/ ConnectFails
    \/ ProcessResponse
    \/ TabQueryCallback
    \/ TypeQuestion
    \/ LegacyAskClick
    \/ LegacyAskEnter
    \/ LegacyAnswer
    \/ PopupAskClick
    \/ PopupAskEnter
    \/ PopupSummarize
    \/ PopupAnswer
    \/ StreamTick

Spec == Init /\ [][Next]_vars

\* ------------------------------------------ formatter and reveal alone
\* A second specification for the formatter and the reveal: a session in
\* Processed with one ask-question in flight, whose answer is any text made
\* of at most MaxSegs fragments.
MaxSegs == 5

Segments == {Stars, BulletMark, <<"a">>, <<" ">>, <<"\n">>}

RECURSIVE TextsOf(_)
TextsOf(n) ==
    IF n = 0 THEN {<<>>}
    ELSE TextsOf(n - 1) \cup {t \o g : t \in TextsOf(n - 1), g \in Segments}

FormatTexts == TextsOf(MaxSegs)

\* the state after: tab callback on a watch page, connect, submit-video
\* answered, a question typed and asked
FormatInit ==
    /\ variant \in Variants
    /\ gradioClient = 1
    /\ videoProcessed = TRUE
    /\ processBtn_disabled = FALSE
    /\ askBtn_disabled = (variant = "legacy")
    /\ videoUrlInput = [value |-> WatchUrl, disabled |-> FALSE, placeholder |-> <<>>]
    /\ questionInput_value = <<" ", "q">>
    /\ processArea_display = "none"
    /\ statusContainer_display = "none"
    /\ interact_display = IF variant = "popup" THEN "flex" ELSE "block"
    /\ status = updateStatus(<<"Processing video... This may take a moment.">>, "loading")
    /\ viewer = [html |-> IF variant = "popup"
                          THEN <<SpanOpen, "Loading answer...", SpanClose>>
                          ELSE <<"Thinking...">>,
                 display |-> "block", visible |-> TRUE]
    /\ connects = EmptyBag
    /\ processes = 0
    /\ asks = [latest |-> TRUE, earlier |-> 0]
    /\ streams = EmptyBag
    /\ tabQueryPending = FALSE
    /\ handled = NoResult
    /\ failedSince = {}
    /\ latestAnswer = NoAnswer
    /\ overlapLast = FALSE

\* the answer arrives: any text
FormatAnswer ==
    /\ asks.latest
    /\ \E t \in FormatTexts :
        IF variant = "legacy"
        THEN LegacyAskSettles(TRUE, Resolved(TextPayload(t)))
        ELSE PopupAskSettles(TRUE, Resolved(TextPayload(t)))

FormatNext ==
    \/ FormatAnswer
    \/ StreamTick

\* a timer that was set fires
FormatSpec == FormatInit /\ [][FormatNext]_vars /\ WF_vars(StreamTick)

TypeOK ==
    /\ variant \in Variants
    /\ gradioClient \in 0..MaxConnects
    /\ videoProcessed \in BOOLEAN
    /\ processBtn_disabled \in BOOLEAN
    /\ askBtn_disabled \in BOOLEAN
    /\ BagCardinality(connects) <= MaxConnects
    /\ processes \in 0..MaxProcess
    /\ AsksActive <= MaxAsks
    /\ overlapLast \in BOOLEAN

\* ---------------------------------------------------------- properties
\* the state of the session state machine the variables stand for
SessionState ==
    IF gradioClient = Null
    THEN IF connects # EmptyBag THEN "Connecting" ELSE "Idle"
    ELSE IF processes > 0 THEN "Processing"
    ELSE IF AsksInFlight > 0 THEN "Answering"
    ELSE IF videoProcessed THEN "Processed"
    ELSE "Connected"

\* the tokens of a text
Tokens(text) == {text[i] : i \in 1..Len(text)}

\* a turn in which the user invokes ask-question
AskInvoked ==
    LegacyAskClick \/ LegacyAskEnter \/ PopupAskClick \/ PopupAskEnter \/ PopupSummarize

\* a turn that issues a remote call
ProcessCallIssued == processes' > processes
AnswerCallIssued == AsksInFlight' > AsksInFlight

\* the error text the backend supplied with a result, "" when none
BackendError(res) ==
    IF res.settled = "reject" THEN res.message
    ELSE IF res.payload.kind = "errorObject" THEN res.payload.error
    ELSE ""

\* C1: an ask-question invoked in a session state other than Processed
\* shows a local validation message and issues no answer_question call.
C1_AskOutsideProcessedIsRejected ==
    [][(SessionState # "Processed" /\ AskInvoked)
        => (viewer'.html \in {PleaseEnter, MustProcess} /\ ~AnswerCallIssued)]_vars

\* C2: when the latest ask was issued while another ask was still in flight
\* or being revealed, then once every ask has finished (the last turn
\* rendering an answer or ending a reveal) the output shows the formatted
\* answer to the latest ask.
C2_LatestAnswerIsShown ==
    [][((LegacyAnswer \/ PopupAnswer \/ StreamTick)
            /\ BackendError(handled'.result) = ""
            /\ handled'.result.payload.kind \in {"none", "text"}
            /\ overlapLast' /\ AsksActive' = 0 /\ latestAnswer' # NoAnswer)
        => viewer'.html = latestAnswer']_vars

\* C3: once the connect attempt started at initialization has failed, the
\* process button is disabled until a connect succeeds.
C3_ButtonDisabledAfterInitFailure ==
    "init" \in failedSince => processBtn_disabled

\* C4: after the handler of a failed submit-video call (rejected, or a
\* response with an error field) videoProcessed is false, the submission
\* form is shown and the URL input and the process button are enabled.
C4_FailureRestoresForm ==
    (handled.call = "process_video" /\ BackendError(handled.result) # "")
        => /\ ~videoProcessed
           /\ ProcessAreaShown
           /\ ~videoUrlInput.disabled
           /\ ~processBtn_disabled

C4_Witness ==
    /\ handled.call = "process_video"
    /\ handled.result.payload.kind = "errorObject"
    /\ status.text = <<"Error: ", handled.result.payload.error>>
    /\ ProcessAreaShown

\* C5: videoProcessed rises from false to true only in the turn that
\* handles a submit-video response that resolved without an error field.
C5_ProcessedOnlyOnSuccess ==
    [][(~videoProcessed /\ videoProcessed')
        => /\ handled'.call = "process_video"
           /\ handled'.result.settled = "resolve"
           /\ handled'.result.payload.kind # "errorObject"]_vars

C5_Witness ==
    /\ videoProcessed
    /\ handled.call = "process_video"
    /\ handled.result.settled = "resolve"

\* C6: at most one answer_question call is in flight at any time.
C6_OneAskInFlight == AsksInFlight <= 1

\* C7: after a connect attempt has failed and until a connect succeeds, no
\* process_video and no answer_question call is issued.
C7_NoCallAfterFailedConnect ==
    [][failedSince' # {} => (~ProcessCallIssued /\ ~AnswerCallIssued)]_vars

\* C8: the turn that handles an error shows the backend-supplied error text
\* in the status line or in the output region.
C8_ErrorsShownVerbatim ==
    BackendError(handled.result) # ""
        => BackendError(handled.result) \in Tokens(status.text) \cup Tokens(viewer.html)

C10_FailedAskKeepsSession ==
    [][(handled'.call = "answer_question"
            /\ (handled'.result.settled = "reject"
                    \/ handled'.result.payload.kind # "text"))
        => (videoProcessed' = videoProcessed /\ gradioClient' = gradioClient)]_vars

C10_Witness ==
    /\ handled.call = "answer_question"
    /\ handled.result.settled = "reject"
    /\ videoProcessed
    /\ gradioClient # Null
    /\ SessionState = "Processed"

\* the guard of the only user action that starts a handshake: a click on
\* the process button with an address in the field and no handle
ConnectTriggerable ==
    /\ ProcessAreaShown
    /\ ~processBtn_disabled
    /\ videoUrlInput.value # <<>>
    /\ gradioClient = Null

\* C11: a submission made while a connection handle exists starts no
\* handshake, leaves the handle as it is and issues its process_video call
\* on it.
C11_ConnectIsIdempotent ==
    [][(gradioClient # Null /\ ClickProcess)
        => /\ connects' = connects
           /\ gradioClient' = gradioClient
           /\ (videoUrlInput.value # <<>> => ProcessCallIssued)]_vars

C11_Witness ==
    /\ gradioClient # Null
    /\ connects = EmptyBag
    /\ processes = 1
    /\ handled = NoResult
    /\ ~videoProcessed
    /\ status.text = <<"Processing video... This may take a moment.">>

\* C12: a reveal that a later reveal has superseded writes nothing to the
\* output region any more.
C12_SupersededRevealIsSilent ==
    [][\A s \in BagToSet(streams) : s.superseded => ~StreamStep(s)]_vars

\* C17: after the callback of the active-tab query, when the tab's address
\* contains "youtube.com/watch" the URL input holds that address and the
\* process button is enabled; otherwise the URL input and the process
\* button are disabled and the placeholder says why.
C17_TabCallbackSetsForm ==
    handled.call = "tabs_query" =>
        LET p == handled.result.payload IN
        IF p.kind = "text" /\ "youtube.com/watch" \in Tokens(p.text)
        THEN /\ videoUrlInput.value = p.text
             /\ ~processBtn_disabled
        ELSE /\ videoUrlInput.disabled
             /\ processBtn_disabled
             /\ videoUrlInput.placeholder = <<"Not on a YouTube video page.">>

C17_Witness ==
    /\ handled.call = "tabs_query"
    /\ handled.result.payload.kind = "text"
    /\ videoUrlInput.value = WatchUrl
    /\ ~processBtn_disabled
    /\ ~tabQueryPending

\* C18: when the last ask-question in flight has been answered or has
\* failed, and no submit-video call is pending, the session is in
\* Processed and the ask control is shown and enabled.
C18_AskReturnsToProcessed ==
    [][((LegacyAnswer \/ PopupAnswer) /\ AsksInFlight' = 0 /\ processes' = 0)
        => /\ SessionState' = "Processed"
           /\ AskControlsShown'
           /\ ~askBtn_disabled']_vars

\* C19: in the state reached by a failed connect that leaves the session
\* without a handle, the user can trigger a new connect attempt.
C19_RetryPossibleAfterFailedConnect ==
    (handled.call = "connect" /\ handled.result.settled = "reject"
        /\ gradioClient = Null)
        => ConnectTriggerable

\* C20: a connection handle, once established, is never cleared or
\* replaced.
C20_HandleIsStable ==
    [][gradioClient # Null => gradioClient' = gradioClient]_vars

\* ---- the formatter's contract, stated on the answer text a turn handled
\* the turn handled an answer that is a text
TextAnswered ==
    /\ handled.call = "answer_question"
    /\ handled.result.settled = "resolve"
    /\ handled.result.payload.kind = "text"

AnswerText == handled.result.payload.text

\* some line of the text, after trimming, begins with "* "
HasBulletLine(text) ==
    \E k \in 1..Len(Split(text, "\n")) :
        StartsWithAt(Trim(Split(text, "\n")[k]), 1, BulletMark)

\* the end of the marker pair that opens at i: the first "**" at or after
\* i + 2; 0 when no pair opens at i
PairEnd(s, i) ==
    LET ends == {j \in (i + 2)..Len(s) : StartsWithAt(s, j, Stars)}
    IN IF StartsWithAt(s, i, Stars) /\ ends # {}
       THEN CHOOSE j \in ends : \A k \in ends : j <= k
       ELSE 0

\* the text with every marker pair, taken from the left, made a bold span
RECURSIVE BoldSpans(_, _)
BoldSpans(s, i) ==
    IF i > Len(s) THEN <<>>
    ELSE IF PairEnd(s, i) # 0
         THEN <<"<strong>">> \o SubSeq(s, i + 2, PairEnd(s, i) - 1)
                \o <<"</strong>">> \o BoldSpans(s, PairEnd(s, i) + 2)
         ELSE <<s[i]>> \o BoldSpans(s, i + 1)

\* how often token t occurs in a markup
Count(markup, t) == Cardinality({k \in 1..Len(markup) : markup[k] = t})

\* the contents of the bold spans of a markup
SpanContents(markup) ==
    {SubSeq(markup, k + 1, j - 1) :
        <<k, j>> \in {<<k, j>> \in (1..Len(markup)) \X (1..Len(markup)) :
                        /\ k < j
                        /\ markup[k] = "<strong>"
                        /\ markup[j] = "</strong>"
                        /\ \A m \in (k + 1)..(j - 1) : markup[m] # "</strong>"}}

\* the list markup the contract describes for a text with bullet lines:
\* the other lines joined by line breaks, then one item per bullet line
ExpectedItem(line) ==
    <<"<li>">> \o Trim(SubSeq(Trim(line), 3, Len(Trim(line)))) \o <<"</li>">>

RECURSIVE ExpectedItems(_)
ExpectedItems(lines) ==
    IF lines = <<>> THEN <<>>
    ELSE IF StartsWithAt(Trim(Head(lines)), 1, BulletMark)
         THEN ExpectedItem(Head(lines)) \o ExpectedItems(Tail(lines))
         ELSE ExpectedItems(Tail(lines))

RECURSIVE ExpectedOthers(_)
ExpectedOthers(lines) ==
    IF lines = <<>> THEN <<>>
    ELSE IF StartsWithAt(Trim(Head(lines)), 1, BulletMark)
         THEN ExpectedOthers(Tail(lines))
         ELSE <<Head(lines)>> \o ExpectedOthers(Tail(lines))

ExpectedList(text) ==
    LET lines == Split(ReplaceBold(text, 1), "\n")
    IN Trim(Join(ExpectedOthers(lines), <<"<br>">>)
                \o <<"<ul>">> \o ExpectedItems(lines) \o <<"</ul>">>)

\* the plain text of the markup being revealed
RevealPlain == PlainText(latestAnswer)

\* C13: a reveal that nothing overlaps shows the prefixes of the plain text
\* of the markup, one character more with every timer step, then the
\* markup; it ends, and then the output region holds the markup.
C13_RevealShowsPrefixesThenMarkup ==
    /\ [](latestAnswer # NoAnswer
            => IF streams = EmptyBag
               THEN viewer.html = latestAnswer
               ELSE \E k \in 1..Len(RevealPlain) :
                        viewer.html = SubSeq(RevealPlain, 1, k))
    /\ [][StreamTick
            => \/ /\ Len(viewer.html) < Len(RevealPlain)
                  /\ viewer'.html = SubSeq(RevealPlain, 1, Len(viewer.html) + 1)
                  /\ streams' # EmptyBag
               \/ /\ viewer.html = RevealPlain
                  /\ viewer'.html = latestAnswer
                  /\ streams' = EmptyBag]_vars
    /\ ((latestAnswer # NoAnswer)
            ~> (streams = EmptyBag /\ viewer.html = latestAnswer))

C13_Witness ==
    \E s \in BagToSet(streams) :
        /\ s.i = 2
        /\ Len(s.plainText) >= 3
        /\ s.formattedText # s.plainText
        /\ s.formattedText = latestAnswer
        /\ viewer.html = SubSeq(s.plainText, 1, 2)

\* C14: for an answer text without a bullet line the formatted markup is
\* the text with its marker pairs made bold spans, and holds no list.
C14_NoBulletLineNoList ==
    (TextAnswered /\ ~HasBulletLine(AnswerText))
        => /\ latestAnswer = Trim(BoldSpans(AnswerText, 1))
           /\ Tokens(latestAnswer) \cap {"<ul>", "</ul>", "<li>", "</li>"} = {}

\* C15: every marker pair of the answer text, taken from the left without
\* overlap, is one bold span of the formatted markup with the markers
\* removed, and there are no other bold spans.
C15_EveryPairIsOneBoldSpan ==
    TextAnswered
        => /\ Count(latestAnswer, "<strong>") = Count(BoldSpans(AnswerText, 1), "<strong>")
           /\ Count(latestAnswer, "</strong>") = Count(latestAnswer, "<strong>")
           /\ SpanContents(latestAnswer) = SpanContents(BoldSpans(AnswerText, 1))

\* C16: the formatted markup holds a list exactly when the answer text has
\* a bullet line, and then it is the other lines joined by line breaks
\* followed by one item per bullet line, in the order of the lines.
C16_ListIffBulletLine ==
    TextAnswered
        => /\ ("<ul>" \in Tokens(latestAnswer)) <=> HasBulletLine(AnswerText)
           /\ HasBulletLine(AnswerText) => latestAnswer = ExpectedList(AnswerText)

\* the handshake the DOMContentLoaded handler starts
InitConnect == [caller |-> "init", url |-> <<>>]

\* C21 as stated: a handshake is in flight only when a user action that
\* needs a connection has started it.
C21_NoHandshakeBeforeUserAction ==
    \A c \in BagToSet(connects) : c # InitConnect

\* C21 as amended: the handshake is started at initialization, before any
\* user action; every later handshake is started by a click on the process
\* button made while no handle exists.
C21_HandshakeStartsAtInitialization ==
    /\ CopiesIn(InitConnect, connects) = 1
    /\ [][BagCardinality(connects') > BagCardinality(connects)
            => (ClickProcess /\ gradioClient = Null
                    /\ CopiesIn(InitConnect, connects') = CopiesIn(InitConnect, connects))]_vars

C21_Witness ==
    /\ CopiesIn(InitConnect, connects) = 1
    /\ ProcessesAwaitingConnect = 1
    /\ gradioClient = Null

\* C22: the formatted markup is the bullet step applied to the result of
\* the bold step; the other order gives another markup for some answer
\* text with both kinds of marker.
C22_BoldBeforeBullets ==
    TextAnswered => latestAnswer = Trim(BulletStep(ReplaceBold(AnswerText, 1)))

C22_Witness ==
    /\ TextAnswered
    /\ Includes(AnswerText, Stars)
    /\ Includes(AnswerText, BulletMark)
    /\ latestAnswer = formatResponse(AnswerText)
    /\ latestAnswer # formatResponse_BulletsFirst(AnswerText)

\* C23: at most one handshake is in flight, and at most one handle is
\* ever assigned.
C23_OneHandshakeOneHandle ==
    /\ BagCardinality(connects) <= 1
    /\ gradioClient <= 1

\* C24: at most one process_video call is in flight.
C24_OneProcessCallInFlight == processes <= 1

\* C25: from the first submit-video completion on, the question section is
\* shown exactly when videoProcessed is true.
C25_SectionShownIffProcessed ==
    [][(ProcessResponse \/ (InteractShown <=> videoProcessed))
        => (InteractShown' <=> videoProcessed')]_vars

C25_Witness ==
    /\ handled.call = "process_video"
    /\ BackendError(handled.result) # ""
    /\ variant = "popup"
    /\ viewer.display = "block"
    /\ ~InteractShown
    /\ ~videoProcessed

\* C26: videoProcessed implies a connection handle, and an answer_question
\* call in flight was made on one.
C26_ProcessedImpliesHandle ==
    (videoProcessed \/ AsksInFlight > 0) => gradioClient # Null

C26_Witness ==
    /\ videoProcessed
    /\ asks.latest
    /\ gradioClient # Null
    /\ failedSince # {}

\* a turn in which a handler finds its input field empty
EmptyInputTurn ==
    \/ ClickProcess /\ videoUrlInput.value = <<>>
    \/ (PopupAskClick \/ PopupAskEnter) /\ Trim(questionInput_value) = <<>>
    \/ (LegacyAskClick \/ LegacyAskEnter) /\ questionInput_value = <<>>

\* C27: a handler that finds its input empty issues no remote call, starts
\* no handshake and leaves videoProcessed and the handle as they were.
C27_EmptyInputIssuesNoCall ==
    [][EmptyInputTurn
        => /\ processes' = processes
           /\ asks' = asks
           /\ connects' = connects
           /\ videoProcessed' = videoProcessed
           /\ gradioClient' = gradioClient]_vars

C27_Witness ==
    /\ handled = EmptyInput
    /\ videoProcessed
    /\ questionInput_value = <<>>
    /\ AsksInFlight = 0

=============================================================================
